---- MODULE Spec2Model ----
(***************************************************************************)
(* A model of markdown-preview-export.                                     *)
(*                                                                         *)
(*  - src/src/helpers.ts, getHtmlForWebview: Markdown -> marked (with the  *)
(*    custom code-block renderer) -> DOMPurify -> twemoji (PDF only) ->    *)
(*    document shell.  HTML is a flat sequence of tokens: an element token *)
(*    (tag, class, attribute names, src) or a text token (one character).  *)
(*    Closing tags are left out: nothing below depends on nesting.         *)
(*  - the scripts the shell embeds, as they run in a page that loaded the  *)
(*    document: the mermaid bootstrap (window.mermaidReady) and            *)
(*    copyToClipboard.                                                     *)
(***************************************************************************)
EXTENDS Naturals, Sequences, FiniteSets, TLC

VARIABLES
    \* the extension host: the process-wide marked singleton and one render call
    markedExtensions,   \* katex registrations accumulated in the marked singleton
    markedDefaults,     \* "default" | "custom": the options last installed by setOptions
    callsMade,          \* render calls made so far
    phase,              \* "idle" | "returned"
    input,              \* arguments of the call that returned
    sanitizedHtml,      \* htmlContent after DOMPurify.sanitize (helpers.ts:129-142)
    result,             \* the document the call returned
    thrown,             \* TRUE when an exception escaped the call
    \* a page that loaded an assembled document
    pageDoc,            \* the document loaded
    pagePc,             \* position of the module script / load handler
    listener,           \* TRUE once the load listener is registered
    diagrams,           \* per .mermaid node: "pending" | "ok" | "failed"
    mermaidReady,       \* window.mermaidReady
    flagWrites,         \* number of assignments to window.mermaidReady
    button,             \* the copy control: content and inline style
    clipboardWrites,    \* navigator.clipboard.writeText promises still pending
    timers,             \* pending setTimeout callbacks (their captured originalText), FIFO
    invocations,        \* copyToClipboard invocations so far
    \* extension.ts: one PDF export driving a headless page
    exportPc,           \* position of the export command's progress callback
    waitEnded,          \* how page.waitForFunction ended: "no" | "flag" | "timeout"
    \* extension.ts: the cached browser handle
    browserInstance,    \* 0 (null) or the id of the cached browser
    browserInitPromise, \* 0 (null) or the id of the initialization in the slot
    inits,              \* per initialization: state and launch attempts made
    browsers,           \* per browser id: "none" | "open" | "closed"
    calls,              \* per getBrowserInstance call: position, initialization awaited, result
    cleanupPc           \* cleanupBrowser: "none" | "closing" | "done", and the browser being closed

hostVars == <<markedExtensions, markedDefaults, callsMade, phase, input,
              sanitizedHtml, result, thrown>>
pageVars == <<pageDoc, pagePc, listener, diagrams, mermaidReady, flagWrites,
              button, clipboardWrites, timers, invocations>>
exportVars == <<exportPc, waitEnded>>
browserVars == <<browserInstance, browserInitPromise, inits, browsers, calls, cleanupPc>>
vars == <<hostVars, pageVars, exportVars, browserVars>>

----------------------------------------------------------------------------
\* Bounds of the model.

MaxBlocks == 2
MaxCalls == 2
MaxBaseLen == 2
MaxDiagrams == 2
MaxInvocations == 2
MaxCandidates == 1
MaxInits == 2
MaxGetCalls == 3

SeqsUpTo(S, n) == UNION {[1..k -> S] : k \in 0..n}

RECURSIVE Flatten(_)
Flatten(ss) == IF ss = <<>> THEN <<>> ELSE Head(ss) \o Flatten(Tail(ss))

Positions(s) == 1..Len(s)

----------------------------------------------------------------------------
\* HTML tokens.

El(tag, cls, attrs, src) ==
    [type |-> "el", tag |-> tag, cls |-> cls, attrs |-> attrs, ch |-> "", src |-> src]

Txt(ch) ==
    [type |-> "txt", tag |-> "", cls |-> "", attrs |-> {}, ch |-> ch, src |-> <<>>]

\* Source characters of a Markdown text: a plain character, an emoji glyph, and
\* a piece of raw markup (<script>..</script><img src=x onerror=..>).
Plain == "x"
Emoji == "EMOJI"
Markup == "XSS"
SourceChars == {Plain, Emoji, Markup}

\* A source character inserted into HTML as it is (template interpolation
\* without escaping, or inline HTML that marked passes through).
Raw(ch) ==
    IF ch = Markup
    THEN <<El("script", "", {}, <<>>), El("img", "", {"src", "onerror"}, <<"x">>)>>
    ELSE <<Txt(ch)>>

RawText(code) == Flatten([i \in Positions(code) |-> Raw(code[i])])

\* A source character inserted escaped: the markup stays text.
EscapedText(code) == [i \in Positions(code) |-> Txt(code[i])]

----------------------------------------------------------------------------
\* highlight.js

HljsLanguages == {"python", "plaintext"}

hljsGetLanguage(lang) == lang \in HljsLanguages

\* hljs.highlight(code, {language}).value: escaped text, inside token spans for
\* a real grammar.
hljsHighlight(code, language) ==
    IF language = "plaintext"
    THEN EscapedText(code)
    ELSE <<El("span", "hljs-token", {"class"}, <<>>)>> \o EscapedText(code)

----------------------------------------------------------------------------
\* renderer.code (helpers.ts:59-107)

CodeHeader(lang) ==
    << El("div", "code-block", {"class"}, <<>>),
       El("div", "code-header", {"class"}, <<>>),
       El("span", "language", {"class"}, <<>>),
       Txt(lang),
       El("button", "copy-button", {"class", "onclick", "title"}, <<>>),
       El("svg", "", {"width", "height", "viewBox", "fill", "stroke", "stroke-width"}, <<>>),
       El("rect", "", {"x", "y", "width", "height", "rx", "ry"}, <<>>),
       El("path", "", {"d"}, <<>>) >>

MermaidBlock(code) ==
    << El("div", "mermaid-container", {"class"}, <<>>),
       El("pre", "mermaid", {"class"}, <<>>) >> \o RawText(code)

\* the try body: the shell around highlighted text
HighlightedBlock(code, lang) ==
    LET validLanguage == IF hljsGetLanguage(lang) THEN lang ELSE "plaintext"
    IN  CodeHeader(lang)
          \o << El("pre", "", {}, <<>>),
                El("code", "hljs language-" \o validLanguage, {"class"}, <<>>) >>
          \o hljsHighlight(code, validLanguage)

\* the catch body: the shell around ${code}
FallbackBlock(code, lang) ==
    CodeHeader(lang)
      \o << El("pre", "", {}, <<>>), El("code", "", {}, <<>>) >>
      \o RawText(code)

Returned(html) == [threw |-> FALSE, html |-> html]
Threw == [threw |-> TRUE, html |-> <<>>]

rendererCodeNoCatch(code, language, hlThrows) ==
    LET lang == IF language = "" THEN "plaintext" ELSE language
    IN  IF lang = "mermaid" THEN Returned(MermaidBlock(code))
        ELSE IF hlThrows THEN Threw
        ELSE Returned(HighlightedBlock(code, lang))

\* hlThrows: hljs.getLanguage / hljs.highlight throws on this block
rendererCode(code, language, hlThrows) ==
    LET lang == IF language = "" THEN "plaintext" ELSE language
    IN  IF lang = "mermaid" THEN Returned(MermaidBlock(code))
        ELSE IF hlThrows THEN Returned(FallbackBlock(code, lang))
        ELSE Returned(HighlightedBlock(code, lang))

----------------------------------------------------------------------------
\* Markdown source: a sequence of blocks.

Block(kind, lang, code, hlThrows) ==
    [kind |-> kind, lang |-> lang, code |-> code, hlThrows |-> hlThrows]

Codes == {<<c>> : c \in SourceChars}
FenceLangs == {"", "python", "zzz"}

\* Paragraphs and recognized-language fences carry every kind of text; the other
\* fences carry plain text, diagram fences plain text or markup.
Blocks ==
    {Block("para", "", c, FALSE) : c \in Codes}
      \cup {Block("math", "", <<Plain>>, FALSE)}
      \cup {Block("fence", "mermaid", c, FALSE) : c \in {<<Plain>>, <<Markup>>}}
      \cup {b \in {Block("fence", l, c, t) : l \in FenceLangs, c \in Codes, t \in BOOLEAN} :
                b.lang = "python" \/ b.code = <<Plain>>}

Markdowns == SeqsUpTo(Blocks, MaxBlocks)

IsCodeFence(b) == b.kind = "fence" /\ b.lang # "mermaid"
IsDiagramFence(b) == b.kind = "fence" /\ b.lang = "mermaid"

----------------------------------------------------------------------------
\* marked (helpers.ts:109-126)

KatexMarkup ==
    << El("span", "katex", {"class"}, <<>>),
       El("math", "", {"xmlns"}, <<>>),
       El("semantics", "", {}, <<>>),
       El("mrow", "", {}, <<>>),
       El("mi", "", {}, <<>>),
       Txt(Plain) >>

\* marked's own code renderer, used while no custom renderer is installed
DefaultCode(code, language) ==
    << El("pre", "", {}, <<>>), El("code", "language-" \o language, {"class"}, <<>>) >>
      \o EscapedText(code)

\* one block of marked.parse under the singleton's state
ParseBlock(b, extensions, defaults) ==
    CASE b.kind = "para" ->
           Returned(<<El("p", "", {}, <<>>)>> \o RawText(b.code))
      [] b.kind = "math" ->
           IF extensions >= 1
           THEN Returned(<<El("p", "", {}, <<>>)>> \o KatexMarkup)
           ELSE Returned(<<El("p", "", {}, <<>>), Txt("$")>> \o EscapedText(b.code))
      [] OTHER ->
           IF defaults = "custom"
           THEN rendererCode(b.code, b.lang, b.hlThrows)
           ELSE Returned(DefaultCode(b.code, b.lang))

\* marked.parse(markdownContent): an exception of a block's renderer propagates
markedParse(md, extensions, defaults) ==
    LET parts == [i \in Positions(md) |-> ParseBlock(md[i], extensions, defaults)]
    IN  IF \E i \in Positions(md) : parts[i].threw
        THEN Threw
        ELSE Returned(Flatten([i \in Positions(md) |-> parts[i].html]))

----------------------------------------------------------------------------
\* DOMPurify.sanitize (helpers.ts:129-142)

\* USE_PROFILES: { html: true }: the tags and attributes of DOMPurify's HTML
\* profile that the pipeline can produce or let through.
HtmlProfileTags ==
    {"a", "button", "code", "div", "h1", "img", "p", "pre", "span", "table"}

HtmlProfileAttrs ==
    {"alt", "class", "draggable", "height", "href", "id", "src", "style",
     "title", "width"}

ADD_TAGS ==
    {"math", "semantics", "mrow", "mi", "mo", "mn", "msup", "sub", "sup", "annotation",
     "svg", "path", "rect", "g", "text", "tspan", "defs", "marker", "line",
     "polyline", "polygon", "circle", "ellipse", "foreignObject"}

ADD_ATTR ==
    {"xmlns", "viewBox", "fill", "stroke", "stroke-width", "d", "x", "y",
     "width", "height", "rx", "ry", "id", "class", "transform", "cx", "cy",
     "r", "x1", "y1", "x2", "y2", "points", "font-family", "font-size",
     "text-anchor", "dominant-baseline", "style", "marker-start", "marker-end"}

AllowedTags == HtmlProfileTags \cup ADD_TAGS
AllowedAttrs == HtmlProfileAttrs \cup ADD_ATTR

SanitizeSkipped(html) == html

\* elements outside the allow-list are removed, attributes outside it dropped
Sanitize(html) ==
    LET kept == SelectSeq(html, LAMBDA t : t.type = "txt" \/ t.tag \in AllowedTags)
    IN  [i \in Positions(kept) |->
            IF kept[i].type = "txt" THEN kept[i]
            ELSE [kept[i] EXCEPT !.attrs = @ \cap AllowedAttrs,
                                 !.src = IF "src" \in AllowedAttrs THEN @ ELSE <<>>]]

----------------------------------------------------------------------------
\* twemoji.parse (helpers.ts:144-150)

TwemojiBase == "https://cdnjs.cloudflare.com/ajax/libs/twemoji/14.0.2/"

\* base + folder + '/' + icon + ext
EmojiImage ==
    El("img", "emoji", {"class", "draggable", "alt", "src"},
       <<TwemojiBase, "svg", "/", "1f600", ".svg">>)

twemojiParse(html) ==
    [i \in Positions(html) |->
        IF html[i].type = "txt" /\ html[i].ch = Emoji THEN EmojiImage ELSE html[i]]

EmojiStageAlways(html, isForPdf) == twemojiParse(html)

\* if (isForPdf) htmlContent = twemoji.parse(htmlContent, ...)
EmojiStage(html, isForPdf) == IF isForPdf THEN twemojiParse(html) ELSE html

----------------------------------------------------------------------------
\* Asset resolution (helpers.ts:152, 160, 161, 189).  A locator is a sequence
\* of pieces; "/" is a piece of its own.

Slash == "/"

Absent == [given |-> FALSE, s |-> <<>>]
Given(s) == [given |-> TRUE, s |-> s]

\* JavaScript truthiness of a string | undefined
Truthy(v) == v.given /\ v.s # <<>>

\* s.replace(/\/$/, '')
ReplaceTrailingSlash(s) ==
    IF s # <<>> /\ s[Len(s)] = Slash THEN SubSeq(s, 1, Len(s) - 1) ELSE s

\* const vendor = assetBase ? assetBase.replace(/\/$/, '') : undefined
Vendor(assetBase) ==
    IF Truthy(assetBase) THEN Given(ReplaceTrailingSlash(assetBase.s)) ELSE Absent

\* ${vendor ? vendor + path : fallback}
AssetRef(vendor, path, fallback) ==
    IF Truthy(vendor) THEN vendor.s \o path ELSE fallback

ThemeCssPath == <<Slash, "highlight", Slash, "styles", Slash, "github-dark.min.css">>
KatexCssPath == <<Slash, "katex", Slash, "katex.min.css">>
HljsPath == <<Slash, "highlight", Slash, "highlight.min.js">>

ThemeCssFallback ==
    <<"https://cdnjs.cloudflare.com/ajax/libs/highlight.js/11.8.0/styles/github-dark.min.css">>
KatexCssFallback == <<"https://cdn.jsdelivr.net/npm/katex@0.16.9/dist/katex.min. css">>
HljsFallback ==
    <<"https://cdnjs.cloudflare.com/ajax/libs/highlight.js/11.8.0/highlight.min.js">>

----------------------------------------------------------------------------
\* The document shell (helpers.ts:154-329)

PrintMediaAlways(isForPdf) == TRUE

\* ${isForPdf ? `@media print {...}` : ''}
PrintMedia(isForPdf) == isForPdf

NoDoc ==
    [themeCss |-> <<>>, katexCss |-> <<>>, hljsSrc |-> <<>>,
     mermaidBootstrap |-> FALSE, copyHelper |-> FALSE, baseTheme |-> FALSE,
     printMedia |-> FALSE, body |-> <<>>]

Assemble(htmlContent, isForPdf, vendor) ==
    [themeCss |-> AssetRef(vendor, ThemeCssPath, ThemeCssFallback),
     katexCss |-> AssetRef(vendor, KatexCssPath, KatexCssFallback),
     hljsSrc |-> AssetRef(vendor, HljsPath, HljsFallback),
     mermaidBootstrap |-> TRUE,
     copyHelper |-> TRUE,
     baseTheme |-> TRUE,
     printMedia |-> PrintMedia(isForPdf),
     body |-> htmlContent]

\* getHtmlForWebview, run on a marked singleton that holds `extensions` katex
\* registrations: marked.use adds one, marked.setOptions installs the custom
\* renderer, then parse, sanitize, emoji stage, assemble.
getHtmlForWebview(markdownContent, isForPdf, assetBase, extensions) ==
    LET parsed == markedParse(markdownContent, extensions + 1, "custom")
        clean == Sanitize(parsed.html)
    IN  IF parsed.threw
        THEN [threw |-> TRUE, sanitized |-> <<>>, doc |-> NoDoc]
        ELSE [threw |-> FALSE,
              sanitized |-> clean,
              doc |-> Assemble(EmojiStage(clean, isForPdf), isForPdf, Vendor(assetBase))]

----------------------------------------------------------------------------
\* Render calls.

ExampleBase == <<"file:", Slash, Slash, Slash, "tmp", Slash, "vendor", Slash>>

AssetBases ==
    {Absent, Given(ExampleBase)} \cup {Given(s) : s \in SeqsUpTo({"vendor", Slash}, MaxBaseLen)}

Input(md, pdf, base) == [md |-> md, isForPdf |-> pdf, assetBase |-> base]
NoInput == Input(<<>>, FALSE, Absent)

\* Every Markdown text with and without a bundled asset base, and every asset
\* base with the short texts (asset resolution does not read the text).
RenderInputs ==
    {Input(md, pdf, base) :
        md \in Markdowns, pdf \in BOOLEAN, base \in {Absent, Given(ExampleBase)}}
      \cup {Input(md, pdf, base) :
        md \in SeqsUpTo(Blocks, 1), pdf \in BOOLEAN, base \in AssetBases}

NoButton == [content |-> "", bg |-> "", color |-> ""]

HostInit ==
    /\ markedExtensions = 0
    /\ markedDefaults = "default"
    /\ callsMade = 0
    /\ phase = "idle"
    /\ input = NoInput
    /\ sanitizedHtml = <<>>
    /\ result = NoDoc
    /\ thrown = FALSE

NoPage ==
    /\ pageDoc = NoDoc
    /\ pagePc = "none"
    /\ listener = FALSE
    /\ diagrams = <<>>
    /\ mermaidReady = FALSE
    /\ flagWrites = 0
    /\ button = NoButton
    /\ clipboardWrites = 0
    /\ timers = <<>>
    /\ invocations = 0

NoExport ==
    /\ exportPc = "none"
    /\ waitEnded = "no"

\* extension.ts:7-8: both module variables start null; nothing launched, no
\* call made, not deactivated
BrowserInit ==
    /\ browserInstance = 0
    /\ browserInitPromise = 0
    /\ inits = [i \in 1..MaxInits |-> [state |-> "unused", attempts |-> 0]]
    /\ browsers = [i \in 1..MaxInits |-> "none"]
    /\ calls = [c \in 1..MaxGetCalls |->
                    [pc |-> "new", init |-> 0, result |-> 0, stale |-> FALSE]]
    /\ cleanupPc = [pc |-> "none", target |-> 0]

Init == HostInit /\ NoPage /\ NoExport /\ BrowserInit

\* one call of getHtmlForWebview, from its first line to its return or throw
Render ==
    /\ phase = "idle"
    /\ callsMade < MaxCalls
    /\ \E in \in RenderInputs :
         LET out == getHtmlForWebview(in.md, in.isForPdf, in.assetBase, markedExtensions)
         IN  /\ markedExtensions' = markedExtensions + 1
             /\ markedDefaults' = "custom"
             /\ callsMade' = callsMade + 1
             /\ phase' = "returned"
             /\ input' = in
             /\ sanitizedHtml' = out.sanitized
             /\ result' = out.doc
             /\ thrown' = out.threw
    /\ UNCHANGED <<pageVars, exportVars, browserVars>>

\* the caller takes the returned string (extension.ts:293-296); the call's
\* locals are gone
Consume ==
    /\ phase = "returned"
    /\ phase' = "idle"
    /\ input' = NoInput
    /\ sanitizedHtml' = <<>>
    /\ result' = NoDoc
    /\ thrown' = FALSE
    /\ UNCHANGED <<markedExtensions, markedDefaults, callsMade>>
    /\ UNCHANGED <<pageVars, exportVars, browserVars>>

Next ==
    \/ Render
    \/ Consume

Spec == Init /\ [][Next]_vars

----------------------------------------------------------------------------
\* A page that loaded an assembled document: the scripts of the shell.

IsDiagramNode(t) == t.type = "el" /\ t.cls = "mermaid"

\* The documents loaded: up to MaxDiagrams diagram fences and one code block,
\* assembled for PDF by a first render call.
DiagramFence == Block("fence", "mermaid", <<Plain>>, FALSE)
PageMarkdowns ==
    {[i \in 1..n |-> DiagramFence] \o <<Block("fence", "python", <<Plain>>, FALSE)>> :
        n \in 0..MaxDiagrams}
PageDocs == {getHtmlForWebview(md, TRUE, Absent, 0).doc : md \in PageMarkdowns}

\* The copy control's children: the icon markup renderer.code emits, or one text
\* node.  textContent of the icon markup is the white space around the tags.
Icon == "<svg>"
IconText == " "
TextContent(b) == IF b.content = Icon THEN IconText ELSE b.content
InitialButton == [content |-> Icon, bg |-> "", color |-> ""]

PageInit ==
    /\ HostInit
    /\ pageDoc \in PageDocs
    /\ pagePc = "parsing"
    /\ listener = FALSE
    /\ diagrams = [i \in 1..Cardinality({j \in Positions(pageDoc.body) :
                                            IsDiagramNode(pageDoc.body[j])}) |-> "pending"]
    /\ mermaidReady = FALSE
    /\ flagWrites = 0
    /\ button = InitialButton
    /\ clipboardWrites = 0
    /\ timers = <<>>
    /\ invocations = 0
    /\ NoExport
    /\ BrowserInit

loadVars == <<pagePc, listener, diagrams, mermaidReady, flagWrites>>
copyVars == <<button, clipboardWrites, timers, invocations>>

\* helpers.ts:164-186: the module script imports mermaid, initializes it and
\* registers the load listener.  A module script runs before the load event.
\* The import of the mermaid module from its CDN is taken to succeed.
ModuleScriptRuns ==
    /\ pagePc = "parsing"
    /\ pageDoc.mermaidBootstrap
    /\ pagePc' = "loaded"
    /\ listener' = TRUE
    /\ UNCHANGED <<diagrams, mermaidReady, flagWrites, pageDoc>>
    /\ UNCHANGED copyVars
    /\ UNCHANGED <<hostVars, exportVars, browserVars>>

WindowLoadSignalsEarly ==
    /\ pagePc = "loaded"
    /\ listener
    /\ pagePc' = "running"
    /\ mermaidReady' = TRUE
    /\ flagWrites' = flagWrites + 1
    /\ UNCHANGED <<listener, diagrams, pageDoc>>
    /\ UNCHANGED copyVars
    /\ UNCHANGED <<hostVars, exportVars, browserVars>>

\* helpers.ts:175-179: the load event runs the listener up to its await of
\* mermaid.run({ querySelector: '.mermaid' })
WindowLoad ==
    /\ pagePc = "loaded"
    /\ listener
    /\ pagePc' = "running"
    /\ UNCHANGED <<listener, diagrams, mermaidReady, flagWrites, pageDoc>>
    /\ UNCHANGED copyVars
    /\ UNCHANGED <<hostVars, exportVars, browserVars>>

\* mermaid.run renders the nodes one after the other; a node that fails is
\* recorded and the run goes on
RenderDiagram ==
    /\ pagePc = "running"
    /\ \E i \in Positions(diagrams) :
          /\ diagrams[i] = "pending"
          /\ \A j \in 1..(i - 1) : diagrams[j] # "pending"
          /\ \E outcome \in {"ok", "failed"} :
                diagrams' = [diagrams EXCEPT ![i] = outcome]
    /\ UNCHANGED <<pagePc, listener, mermaidReady, flagWrites, pageDoc>>
    /\ UNCHANGED copyVars
    /\ UNCHANGED <<hostVars, exportVars, browserVars>>

\* the promise of mermaid.run settles: resolved when no node failed
RunResolves ==
    /\ pagePc = "running"
    /\ \A i \in Positions(diagrams) : diagrams[i] = "ok"
    /\ pagePc' = "resolved"
    /\ UNCHANGED <<listener, diagrams, mermaidReady, flagWrites, pageDoc>>
    /\ UNCHANGED copyVars
    /\ UNCHANGED <<hostVars, exportVars, browserVars>>

\* rejected with the first error once every node was tried
RunRejects ==
    /\ pagePc = "running"
    /\ \A i \in Positions(diagrams) : diagrams[i] # "pending"
    /\ \E i \in Positions(diagrams) : diagrams[i] = "failed"
    /\ pagePc' = "rejected"
    /\ UNCHANGED <<listener, diagrams, mermaidReady, flagWrites, pageDoc>>
    /\ UNCHANGED copyVars
    /\ UNCHANGED <<hostVars, exportVars, browserVars>>

\* helpers.ts:181: after the await, window.mermaidReady = true
OnRunResolved ==
    /\ pagePc = "resolved"
    /\ mermaidReady' = TRUE
    /\ flagWrites' = flagWrites + 1
    /\ pagePc' = "done"
    /\ UNCHANGED <<listener, diagrams, pageDoc>>
    /\ UNCHANGED copyVars
    /\ UNCHANGED <<hostVars, exportVars, browserVars>>

OnRunRejectedNoSignal ==
    /\ pagePc = "rejected"
    /\ pagePc' = "done"
    /\ UNCHANGED <<listener, diagrams, mermaidReady, flagWrites, pageDoc>>
    /\ UNCHANGED copyVars
    /\ UNCHANGED <<hostVars, exportVars, browserVars>>

\* helpers.ts:182-185: catch: console.error, window.mermaidReady = true
OnRunRejected ==
    /\ pagePc = "rejected"
    /\ mermaidReady' = TRUE
    /\ flagWrites' = flagWrites + 1
    /\ pagePc' = "done"
    /\ UNCHANGED <<listener, diagrams, pageDoc>>
    /\ UNCHANGED copyVars
    /\ UNCHANGED <<hostVars, exportVars, browserVars>>

\* helpers.ts:201-204: copyToClipboard(button), called on the copy control, up
\* to the writeText call, whose promise is left pending
CopyToClipboard ==
    /\ pagePc # "none"
    /\ pageDoc.copyHelper
    /\ invocations < MaxInvocations
    /\ invocations' = invocations + 1
    /\ clipboardWrites' = clipboardWrites + 1
    /\ UNCHANGED <<button, timers, pageDoc>>
    /\ UNCHANGED loadVars
    /\ UNCHANGED <<hostVars, exportVars, browserVars>>

\* helpers.ts:204-213: the then callback
WriteResolved ==
    /\ clipboardWrites > 0
    /\ clipboardWrites' = clipboardWrites - 1
    /\ LET originalText == TextContent(button)
       IN  /\ button' = [content |-> "Copied!", bg |-> "#4CAF50", color |-> "white"]
           /\ timers' = Append(timers, originalText)
    /\ UNCHANGED <<invocations, pageDoc>>
    /\ UNCHANGED loadVars
    /\ UNCHANGED <<hostVars, exportVars, browserVars>>

\* helpers.ts:214-216: the catch callback logs
WriteRejected ==
    /\ clipboardWrites > 0
    /\ clipboardWrites' = clipboardWrites - 1
    /\ UNCHANGED <<button, timers, invocations, pageDoc>>
    /\ UNCHANGED loadVars
    /\ UNCHANGED <<hostVars, exportVars, browserVars>>

\* helpers.ts:209-213: the timeout callback; timers of equal delay fire in the
\* order they were set
TimerFires ==
    /\ timers # <<>>
    /\ button' = [content |-> Head(timers), bg |-> "", color |-> ""]
    /\ timers' = Tail(timers)
    /\ UNCHANGED <<clipboardWrites, invocations, pageDoc>>
    /\ UNCHANGED loadVars
    /\ UNCHANGED <<hostVars, exportVars, browserVars>>

PageNext ==
    \/ ModuleScriptRuns
    \/ WindowLoad
    \/ RenderDiagram
    \/ RunResolves
    \/ RunRejects
    \/ OnRunResolved
    \/ OnRunRejected
    \/ CopyToClipboard
    \/ WriteResolved
    \/ WriteRejected
    \/ TimerFires

PageSpec == PageInit /\ [][PageNext]_vars

\* The browser runs the module script, fires load, and runs every task and
\* microtask that is ready; the promises of mermaid.run, of writeText and the
\* timers settle.
FairPageSpec ==
    /\ PageSpec
    /\ WF_vars(ModuleScriptRuns)
    /\ WF_vars(WindowLoad)
    /\ WF_vars(RenderDiagram)
    /\ WF_vars(RunResolves)
    /\ WF_vars(RunRejects)
    /\ WF_vars(OnRunResolved)
    /\ WF_vars(OnRunRejected)
    /\ WF_vars(WriteResolved \/ WriteRejected)
    /\ WF_vars(TimerFires)

----------------------------------------------------------------------------
\* Properties of a render call.

EventHandlerAttrs == {"onclick", "onerror", "onload"}

Count(html, Test(_)) == Cardinality({i \in Positions(html) : Test(html[i])})
CountBlocks(md, Test(_)) == Cardinality({i \in Positions(md) : Test(md[i])})

IsEmojiGlyph(t) == t.type = "txt" /\ t.ch = Emoji
HasEmoji(html) == \E i \in Positions(html) : IsEmojiGlyph(html[i])
IsCopyButton(t) == t.type = "el" /\ t.tag = "button" /\ t.cls = "copy-button"

SafeToken(t) ==
    t.type = "el" =>
        /\ t.tag # "script"
        /\ t.attrs \cap EventHandlerAttrs = {}
        /\ t.tag \in AllowedTags
        /\ t.attrs \subseteq AllowedAttrs

RECURSIVE StripTrailingSlashes(_)
StripTrailingSlashes(s) ==
    IF s # <<>> /\ s[Len(s)] = Slash
    THEN StripTrailingSlashes(SubSeq(s, 1, Len(s) - 1))
    ELSE s

\* an empty string counts as no asset base
ClaimedRef(assetBase, path, fallback) ==
    IF assetBase.given /\ assetBase.s # <<>>
    THEN StripTrailingSlashes(assetBase.s) \o path
    ELSE fallback

\* C4: each of the three references is the supplied asset base, trailing slash
\* stripped, followed by the asset's path (no double slash at the join), and
\* the asset's remote fallback when no asset base is supplied.
C4_AssetResolution ==
    (phase = "returned" /\ ~thrown) =>
        /\ result.themeCss = ClaimedRef(input.assetBase, ThemeCssPath, ThemeCssFallback)
        /\ result.katexCss = ClaimedRef(input.assetBase, KatexCssPath, KatexCssFallback)
        /\ result.hljsSrc = ClaimedRef(input.assetBase, HljsPath, HljsFallback)

\* C5: outside PDF mode the sanitized fragment reaches the assembler unaltered;
\* in PDF mode every emoji glyph becomes an image under the twemoji SVG base and
\* nothing else changes; without emoji the stage is a no-op.
C5_EmojiOnlyForPdf ==
    (phase = "returned" /\ ~thrown) =>
        /\ Len(result.body) = Len(sanitizedHtml)
        /\ ~input.isForPdf => result.body = sanitizedHtml
        /\ input.isForPdf =>
              \A i \in Positions(sanitizedHtml) :
                 IF IsEmojiGlyph(sanitizedHtml[i])
                 THEN /\ result.body[i].type = "el"
                      /\ result.body[i].tag = "img"
                      /\ Len(result.body[i].src) >= 2
                      /\ result.body[i].src[1] = TwemojiBase
                      /\ result.body[i].src[2] = "svg"
                 ELSE result.body[i] = sanitizedHtml[i]
        /\ ~HasEmoji(sanitizedHtml) => result.body = sanitizedHtml

C5_Witness ==
    /\ phase = "returned"
    /\ ~thrown
    /\ input.isForPdf
    /\ HasEmoji(sanitizedHtml)
    /\ \E i \in Positions(result.body) : result.body[i] = EmojiImage

\* C6: a render call starts from the state a first call starts from (no
\* earlier call left anything behind for it to read) and returns what the same
\* call returns when made first and alone.
C6_NoSharedState ==
    [][(phase = "idle" /\ phase' = "returned") =>
          /\ markedExtensions = 0
          /\ markedDefaults = "default"
          /\ result' = getHtmlForWebview(input'.md, input'.isForPdf,
                                         input'.assetBase, 0).doc]_vars

\* C7: no exception escapes; every code fence, also one whose highlighter
\* throws, gets the shell (label and copy control); absent and unrecognized
\* languages go through "plaintext"; a block whose highlighter throws is
\* emitted unhighlighted; every other block of the text is still rendered into
\* a complete document.
C7_HighlightFailuresRecovered ==
    phase = "returned" =>
        /\ ~thrown
        /\ result.mermaidBootstrap /\ result.copyHelper /\ result.baseTheme
        /\ Count(sanitizedHtml, IsCopyButton) = CountBlocks(input.md, IsCodeFence)
        /\ Count(sanitizedHtml, LAMBDA t : t.type = "el" /\ t.cls = "language")
              = CountBlocks(input.md, IsCodeFence)
        /\ Count(sanitizedHtml, LAMBDA t : t.type = "el" /\ t.tag = "code"
                                             /\ t.cls = "hljs language-plaintext")
              = CountBlocks(input.md, LAMBDA b : IsCodeFence(b) /\ ~b.hlThrows
                                                   /\ ~hljsGetLanguage(b.lang))
        /\ Count(sanitizedHtml, LAMBDA t : t.type = "el" /\ t.tag = "code" /\ t.cls = "")
              = CountBlocks(input.md, LAMBDA b : IsCodeFence(b) /\ b.hlThrows)
        /\ Count(sanitizedHtml, LAMBDA t : t.type = "el" /\ t.tag = "p")
              = CountBlocks(input.md, LAMBDA b : b.kind \in {"para", "math"})
        /\ Count(sanitizedHtml, LAMBDA t : t.type = "el" /\ t.cls = "mermaid")
              = CountBlocks(input.md, IsDiagramFence)

\* a block whose highlighter throws, followed by a fence without a language
C7_Witness ==
    /\ phase = "returned"
    /\ ~thrown
    /\ Len(input.md) = 2
    /\ IsCodeFence(input.md[1]) /\ input.md[1].hlThrows
    /\ IsCodeFence(input.md[2]) /\ input.md[2].lang = "" /\ ~input.md[2].hlThrows
    /\ Len(result.body) > 0

\* C8: the PDF document and the non-PDF document of the same text and asset
\* base differ only in the print-media block, which only the PDF document has,
\* and in emoji glyphs; without emoji they are equal but for that block.
C8_PdfDiffersByPrintBlockAndEmoji ==
    (phase = "returned" /\ ~thrown) =>
        LET other == getHtmlForWebview(input.md, ~input.isForPdf, input.assetBase,
                                       markedExtensions - 1).doc
            pdf == IF input.isForPdf THEN result ELSE other
            plain == IF input.isForPdf THEN other ELSE result
        IN  /\ pdf.printMedia /\ ~plain.printMedia
            /\ [pdf EXCEPT !.printMedia = FALSE, !.body = <<>>] = [plain EXCEPT !.body = <<>>]
            /\ Len(pdf.body) = Len(plain.body)
            /\ \A i \in Positions(plain.body) :
                  pdf.body[i] # plain.body[i] => IsEmojiGlyph(plain.body[i])
            /\ ~HasEmoji(plain.body) => [pdf EXCEPT !.printMedia = FALSE] = plain

\* a text without emoji, with a heading-like paragraph and a python block, for PDF
C8_Witness ==
    /\ phase = "returned"
    /\ ~thrown
    /\ input.isForPdf
    /\ result.printMedia
    /\ ~HasEmoji(sanitizedHtml)
    /\ \E i \in Positions(input.md) : IsCodeFence(input.md[i]) /\ input.md[i].lang = "python"

\* C9: every copy control in the body of the returned document still carries
\* the onclick binding to copyToClipboard that renderer.code attached.
C9_CopyControlBound ==
    phase = "returned" =>
        \A i \in Positions(result.body) :
            IsCopyButton(result.body[i]) =>
                result.copyHelper /\ "onclick" \in result.body[i].attrs

----------------------------------------------------------------------------
\* Properties of a loaded page.

AllSettled == \A i \in Positions(diagrams) : diagrams[i] # "pending"

\* C1: on every load, whether the document has no diagram, every diagram
\* renders, or some diagram fails, window.mermaidReady eventually becomes true.
C1_FlagEventuallySet == <>(mermaidReady = TRUE)

\* the failure case: a diagram failed and the flag is set
C1_Witness ==
    /\ mermaidReady
    /\ \E i \in Positions(diagrams) : diagrams[i] = "failed"

\* C2: window.mermaidReady is assigned at most once per load, only after
\* mermaid.run has settled, and once true it stays true.
C2_FlagSetExactlyOnce ==
    /\ [](/\ flagWrites <= 1
          /\ mermaidReady => (AllSettled /\ pagePc = "done")
          /\ flagWrites >= 1 => mermaidReady)
    /\ [][mermaidReady => mermaidReady']_vars

\* the success case with diagrams: one write, after the run resolved
C2_Witness ==
    /\ pagePc = "done"
    /\ flagWrites = 1
    /\ diagrams # <<>>
    /\ \A i \in Positions(diagrams) : diagrams[i] = "ok"

Quiescent == pagePc # "none" /\ clipboardWrites = 0 /\ timers = <<>>

\* C10: once every clipboard write has settled and every timer has fired, the
\* copy control has the content and the style it had before the first
\* invocation of copyToClipboard.
C10_AcknowledgmentReverts == Quiescent => button = InitialButton

----------------------------------------------------------------------------
\* exportToPdfCommand (extension.ts:217-267): the progress callback of one PDF
\* export, driving a headless page that loads the assembled document.

ExportInit ==
    /\ HostInit
    /\ NoPage
    /\ exportPc = "start"
    /\ waitEnded = "no"
    /\ BrowserInit

\* extension.ts:218-219: getBrowserInstance and browser.newPage, or one of
\* them throws
ExportGetPage ==
    /\ exportPc = "start"
    /\ exportPc' \in {"page", "failedBrowser"}
    /\ UNCHANGED <<waitEnded, hostVars, pageVars, browserVars>>

\* extension.ts:222-225: page.setContent hands the document to the page
ExportSetContent ==
    /\ exportPc = "page"
    /\ exportPc' = "content"
    /\ pageDoc' \in PageDocs
    /\ pagePc' = "parsing"
    /\ listener' = FALSE
    /\ diagrams' = [i \in 1..Cardinality({j \in Positions(pageDoc'.body) :
                                             IsDiagramNode(pageDoc'.body[j])}) |-> "pending"]
    /\ mermaidReady' = FALSE
    /\ flagWrites' = 0
    /\ button' = InitialButton
    /\ UNCHANGED <<clipboardWrites, timers, invocations>>
    /\ UNCHANGED <<waitEnded, hostVars, browserVars>>

\* extension.ts:225: setContent resolves at DOMContentLoaded, which follows the
\* module script
ExportContentLoaded ==
    /\ exportPc = "content"
    /\ pagePc # "parsing"
    /\ exportPc' = "waiting"
    /\ UNCHANGED <<waitEnded, hostVars, pageVars, browserVars>>

\* extension.ts:229-232: waitForFunction sees window.mermaidReady === true
ExportFlagObserved ==
    /\ exportPc = "waiting"
    /\ mermaidReady = TRUE
    /\ waitEnded' = "flag"
    /\ exportPc' = "networkIdle"
    /\ UNCHANGED <<hostVars, pageVars, browserVars>>

ExportWaitTimeoutFails ==
    /\ exportPc = "waiting"
    /\ waitEnded' = "timeout"
    /\ exportPc' = "failedPdf"
    /\ UNCHANGED <<hostVars, pageVars, browserVars>>

\* extension.ts:229-235: waitForFunction rejects after timeout: 10000; the
\* catch logs and the callback goes on
ExportWaitTimeout ==
    /\ exportPc = "waiting"
    /\ waitEnded' = "timeout"
    /\ exportPc' = "networkIdle"
    /\ UNCHANGED <<hostVars, pageVars, browserVars>>

\* extension.ts:238-242: waitForNetworkIdle resolves or times out after 2000;
\* either way the callback goes on
ExportNetworkIdle ==
    /\ exportPc = "networkIdle"
    /\ exportPc' = "capturing"
    /\ UNCHANGED <<waitEnded, hostVars, pageVars, browserVars>>

\* extension.ts:244-254: page.pdf returns the buffer, or throws
ExportPdf ==
    /\ exportPc = "capturing"
    /\ exportPc' \in {"captured", "failedPdf"}
    /\ UNCHANGED <<waitEnded, hostVars, pageVars, browserVars>>

\* extension.ts:256-257: fs.writeFileSync and the success message, or throws
ExportWrite ==
    /\ exportPc = "captured"
    /\ exportPc' \in {"written", "failedWrite"}
    /\ UNCHANGED <<waitEnded, hostVars, pageVars, browserVars>>

ExportNext ==
    \/ ExportGetPage
    \/ ExportSetContent
    \/ ExportContentLoaded
    \/ ExportFlagObserved
    \/ ExportWaitTimeout
    \/ ExportNetworkIdle
    \/ ExportPdf
    \/ ExportWrite
    \/ ModuleScriptRuns
    \/ WindowLoad
    \/ RenderDiagram
    \/ RunResolves
    \/ RunRejects
    \/ OnRunResolved
    \/ OnRunRejected

ExportSpec == ExportInit /\ [][ExportNext]_vars

\* The extension host runs every continuation that is ready and puppeteer's
\* timeouts fire; the page runs its module script.  Nothing is assumed about
\* the page's diagram rendering: it may never finish.
FairExportSpec ==
    /\ ExportSpec
    /\ WF_vars(ExportGetPage)
    /\ WF_vars(ExportSetContent)
    /\ WF_vars(ModuleScriptRuns)
    /\ WF_vars(ExportContentLoaded)
    /\ WF_vars(ExportFlagObserved \/ ExportWaitTimeout)
    /\ WF_vars(ExportNetworkIdle)
    /\ WF_vars(ExportPdf)
    /\ WF_vars(ExportWrite)

\* C11: the export loads the document, then waits for the flag, then captures:
\* no capture before the wait has ended; the wait ends by the flag being seen
\* true or by the timeout, and never fails the export; and a wait always ends,
\* also when the flag never becomes true, after which the capture is made.
C11_WaitThenCapture ==
    /\ [](/\ exportPc \in {"networkIdle", "capturing", "captured", "written",
                           "failedPdf", "failedWrite"} => waitEnded # "no"
          /\ exportPc \in {"start", "page", "content", "waiting", "failedBrowser"}
                => waitEnded = "no"
          /\ waitEnded = "flag" => mermaidReady)
    /\ [][exportPc = "waiting" => exportPc' \in {"waiting", "networkIdle"}]_vars
    /\ (exportPc = "waiting") ~> (exportPc \in {"captured", "failedPdf"})

\* the PDF is captured after the timeout although the flag is still false
C11_Witness ==
    /\ exportPc = "captured"
    /\ waitEnded = "timeout"
    /\ mermaidReady = FALSE

----------------------------------------------------------------------------
\* The cached browser handle (extension.ts:7-105).  Browsers carry the id of
\* the initialization that launched them.

BrowserSpecInit == HostInit /\ NoPage /\ NoExport /\ BrowserInit

\* browserInstance && browserInstance.connected
Connected == browserInstance # 0 /\ browsers[browserInstance] = "open"

UnusedInits == {i \in 1..MaxInits : inits[i].state = "unused"}

\* extension.ts:87-92 and 10-26: getBrowserInstance and initBrowser up to the
\* first await.  The async function of line 19 runs synchronously up to its
\* await of puppeteer.launch, so the slot is filled before anything else runs.
GetBrowserInstance(c) ==
    /\ calls[c].pc = "new"
    /\ IF Connected
       THEN /\ calls' = [calls EXCEPT ![c] = [pc |-> "resolved", init |-> 0,
                                              result |-> browserInstance, stale |-> FALSE]]
            /\ UNCHANGED <<browserInitPromise, inits>>
       ELSE IF browserInitPromise # 0
       THEN /\ calls' = [calls EXCEPT ![c] =
                            [pc |-> "awaiting", init |-> browserInitPromise, result |-> 0,
                             stale |-> inits[browserInitPromise].state # "launching"]]
            /\ UNCHANGED <<browserInitPromise, inits>>
       ELSE /\ UnusedInits # {}
            /\ LET i == CHOOSE x \in UnusedInits : \A y \in UnusedInits : x <= y
               IN  /\ browserInitPromise' = i
                   /\ inits' = [inits EXCEPT ![i] = [state |-> "launching", attempts |-> 0]]
                   /\ calls' = [calls EXCEPT ![c] = [pc |-> "awaiting", init |-> i,
                                                     result |-> 0, stale |-> FALSE]]
    /\ UNCHANGED <<browserInstance, browsers, cleanupPc>>
    /\ UNCHANGED <<hostVars, pageVars, exportVars>>

\* extension.ts:26-37, 52-64 and 79-84: a launch resolves; browserInstance is
\* set, the promise resolves and the finally of the call that created it
\* clears the slot, all before any other task runs
LaunchSucceeds(i) ==
    /\ inits[i].state = "launching"
    /\ browsers' = [browsers EXCEPT ![i] = "open"]
    /\ browserInstance' = i
    /\ inits' = [inits EXCEPT ![i].state = "resolved"]
    /\ browserInitPromise' = 0
    /\ UNCHANGED <<calls, cleanupPc>>
    /\ UNCHANGED <<hostVars, pageVars, exportVars>>

\* extension.ts:38-41, 44-69: a launch fails and the next existing candidate
\* path is tried
LaunchFailsTryNext(i) ==
    /\ inits[i].state = "launching"
    /\ inits[i].attempts < MaxCandidates
    /\ inits' = [inits EXCEPT ![i].attempts = @ + 1]
    /\ UNCHANGED <<browserInstance, browserInitPromise, browsers, calls, cleanupPc>>
    /\ UNCHANGED <<hostVars, pageVars, exportVars>>

InitFailsKeepsSlot(i) ==
    /\ inits[i].state = "launching"
    /\ inits' = [inits EXCEPT ![i].state = "rejected"]
    /\ UNCHANGED <<browserInstance, browserInitPromise, browsers, calls, cleanupPc>>
    /\ UNCHANGED <<hostVars, pageVars, exportVars>>

\* extension.ts:71-76 and 79-84: the last launch fails, the promise rejects and
\* the finally of the call that created it clears the slot
InitFails(i) ==
    /\ inits[i].state = "launching"
    /\ inits' = [inits EXCEPT ![i].state = "rejected"]
    /\ browserInitPromise' = 0
    /\ UNCHANGED <<browserInstance, browsers, calls, cleanupPc>>
    /\ UNCHANGED <<hostVars, pageVars, exportVars>>

\* a call that awaited the promise resumes with its value or its error
CallResumes(c) ==
    /\ calls[c].pc = "awaiting"
    /\ inits[calls[c].init].state \in {"resolved", "rejected"}
    /\ calls' = [calls EXCEPT ![c] =
                    IF inits[calls[c].init].state = "resolved"
                    THEN [@ EXCEPT !.pc = "resolved", !.result = calls[c].init]
                    ELSE [@ EXCEPT !.pc = "rejected"]]
    /\ UNCHANGED <<browserInstance, browserInitPromise, inits, browsers, cleanupPc>>
    /\ UNCHANGED <<hostVars, pageVars, exportVars>>

\* the browser process goes away: browserInstance.connected turns false
BrowserDisconnects(b) ==
    /\ browsers[b] = "open"
    /\ browsers' = [browsers EXCEPT ![b] = "closed"]
    /\ UNCHANGED <<browserInstance, browserInitPromise, inits, calls, cleanupPc>>
    /\ UNCHANGED <<hostVars, pageVars, exportVars>>

\* extension.ts:299-301 and 94-97: deactivate calls cleanupBrowser, which
\* returns at once when browserInstance is null and else awaits close()
Deactivate ==
    /\ cleanupPc.pc = "none"
    /\ cleanupPc' = IF browserInstance # 0
                    THEN [pc |-> "closing", target |-> browserInstance]
                    ELSE [pc |-> "done", target |-> 0]
    /\ UNCHANGED <<browserInstance, browserInitPromise, inits, browsers, calls>>
    /\ UNCHANGED <<hostVars, pageVars, exportVars>>

\* extension.ts:97-103: close() settles (it rejects on a browser already gone,
\* which the catch logs); finally browserInstance = null
CloseSettles ==
    /\ cleanupPc.pc = "closing"
    /\ browsers' = [browsers EXCEPT ![cleanupPc.target] = "closed"]
    /\ browserInstance' = 0
    /\ cleanupPc' = [cleanupPc EXCEPT !.pc = "done"]
    /\ UNCHANGED <<browserInitPromise, inits, calls>>
    /\ UNCHANGED <<hostVars, pageVars, exportVars>>

BrowserNext ==
    \/ \E c \in 1..MaxGetCalls : GetBrowserInstance(c)
    \/ \E i \in 1..MaxInits : LaunchSucceeds(i)
    \/ \E i \in 1..MaxInits : LaunchFailsTryNext(i)
    \/ \E i \in 1..MaxInits : InitFails(i)
    \/ \E c \in 1..MaxGetCalls : CallResumes(c)
    \/ \E b \in 1..MaxInits : BrowserDisconnects(b)
    \/ Deactivate
    \/ CloseSettles

BrowserSpec == BrowserSpecInit /\ [][BrowserNext]_vars

Launching == {i \in 1..MaxInits : inits[i].state = "launching"}

\* C12: at most one initialization is in flight; the slot holds exactly the
\* initialization in flight, so it is empty once an initialization has failed
\* and no call ever joins a settled one; every call that awaited an
\* initialization gets that initialization's browser, or its failure.
C12_SingleSlotCache ==
    /\ Cardinality(Launching) <= 1
    /\ Launching = IF browserInitPromise = 0 THEN {} ELSE {browserInitPromise}
    /\ \A c \in 1..MaxGetCalls :
          /\ ~calls[c].stale
          /\ (calls[c].pc = "resolved" /\ calls[c].init # 0) =>
                (inits[calls[c].init].state = "resolved" /\ calls[c].result = calls[c].init)
          /\ calls[c].pc = "rejected" => inits[calls[c].init].state = "rejected"
          /\ calls[c].pc = "awaiting" => calls[c].init # 0

\* two calls shared an initialization that failed, and a later call started a
\* fresh one that gave it a browser
C12_Witness ==
    \E c, d, e \in 1..MaxGetCalls :
        /\ c # d
        /\ calls[c].pc = "rejected" /\ calls[d].pc = "rejected"
        /\ calls[c].init = calls[d].init
        /\ calls[e].pc = "resolved"
        /\ calls[e].init # 0 /\ calls[e].init # calls[c].init

\* C13: once cleanupBrowser has completed, no launched browser is open and
\* browserInstance holds none.
C13_NoBrowserAfterCleanup ==
    cleanupPc.pc = "done" =>
        /\ browserInstance = 0
        /\ \A b \in 1..MaxInits : browsers[b] # "open"

====
